---------------------------- MODULE Spec2Model ----------------------------
(***************************************************************************)
(* Road-Trip Rally multiplayer server (src/server.js).                     *)
(*                                                                         *)
(* The source file holds two copies of the server (lines 1-281 and         *)
(* 283-487).  Their socket handlers, tick and sweep are the same code up   *)
(* to layout; the model follows the first copy, and names the second copy  *)
(* where the two differ.                                                   *)
(*                                                                         *)
(* Numbers.  JavaScript doubles are modelled in fixed point: lengths in    *)
(* millimetres, speeds in mm/s, angles in milliradians, fuel and the       *)
(* control values in thousandths, noise values in millionths, time in      *)
(* milliseconds.  Every product is arranged to stay below 2^31.            *)
(***************************************************************************)
EXTENDS Integers, Sequences, FiniteSets, TLC

VARIABLES
    rooms,       \* server.js:19   the room table, in insertion order
    joinedCode,  \* server.js:193  per live socket: the code it last joined
    subs,        \* server.js:206  per live socket: the transport rooms it is in
    closed,      \* ids of sockets that have disconnected (ids are never reused)
    now,         \* the value nowMs() returns (server.js:28)
    ticks,       \* how many times the interval callback has run
    msgs,        \* how many client messages the handlers have taken
    last,        \* the event handled last: [op, id, arg, host, swept]
    sent         \* the messages that handler emitted, in order

vars == <<rooms, joinedCode, subs, closed, now, ticks, msgs, last, sent>>

(***************************************************************************)
(* Bounds of the model.                                                    *)
(***************************************************************************)
NumConns == 3
NumCodes == 2
NumSeeds == 1
MaxTicks == 1
MaxMsgs == 3

(***************************************************************************)
(* Program constants.                                                      *)
(***************************************************************************)
TICK_HZ == 20
ROOM_TTL_MS == 1000 * 60 * 60
IDLE_MS == 10000
MAX_PLAYERS == 12
NAME_MAX == 18
SEG == 800
TICK_MS == 1000 \div TICK_HZ

Milli == 10 ^ 3
Micro == 10 ^ 6

\* phys (server.js:115-124), in thousandths; the two friction bases and the
\* out-of-fuel halving rate are stored already raised to DT = 1/20, in millionths:
\* 0.9^0.05 = 0.994745..., 0.65^0.05 = 0.978691..., 0.5^0.05 = 0.965936...
phys == [ accel |-> 8000, brake |-> 10000, maxSpeed |-> 45000, minSpeed |-> -10000,
          turnRate |-> 1800, fuelBurn |-> 15, offroadBurn |-> 1800, roadHalfW |-> 7000,
          baseFrictionDT |-> 994745, offroadFrictionDT |-> 978691,
          emptyDecayDT |-> 965936, burnSpeed |-> 200, refuelRate |-> 30000,
          poiOffset |-> 17000, townRadius |-> 22000, poiRadius |-> 10000,
          reach |-> 3000 ]

(***************************************************************************)
(* Small arithmetic helpers.                                               *)
(***************************************************************************)
Abs(v) == IF v < 0 THEN -v ELSE v
Min(a, b) == IF a < b THEN a ELSE b
Max(a, b) == IF a > b THEN a ELSE b

\* v * f / 10^6 without leaving 32 bits (|v| < 2 * 10^6, 0 <= f <= 10^6)
MulMicro(v, f) == (v * (f \div Milli) + (v * (f % Milli)) \div Milli) \div Milli

\* Math.sin and Math.cos on milliradians, result in thousandths: reduction to
\* [-pi/2, pi/2] and the Taylor polynomial up to the 7th power.
SinMilli(a) ==
    LET pi == 3142
        r0 == ((a + pi) % (2 * pi)) - pi
        r  == IF r0 > pi \div 2 THEN pi - r0
              ELSE IF r0 < -(pi \div 2) THEN -pi - r0 ELSE r0
        r2 == (r * r) \div Milli
        r3 == (r2 * r) \div Milli
        r5 == (r3 * r2) \div Milli
        r7 == (r5 * r2) \div Milli
    IN  Max(-Milli, Min(Milli, r - r3 \div 6 + r5 \div 120 - r7 \div 5040))

CosMilli(a) == SinMilli(a + 1571)

(***************************************************************************)
(* World generator (server.js:30-62).                                      *)
(***************************************************************************)
\* The seeds Math.random() may draw (server.js:95), as many as NumSeeds allows.
SeedPool == <<11, 2, 42>>
Seeds == { SeedPool[i] : i \in 1..Min(NumSeeds, Len(SeedPool)) }

\* The seeds of the races the model drives (RaceSeeds below): at the midpoint
\* of the first segment they put a gas station, a hotel, a store, a town, and
\* nothing.
RaceSeedPool == <<95, 60, 118, 120, 220>>

\* rnd (server.js:35-38): frac(sin((n + seed) * 12345.678) * 43758.5453), in
\* millionths, tabulated from the formula for the arguments n + seed that the
\* seeds of SeedPool and RaceSeedPool and |y| < 800 m reach.
rnd(a) ==
    CASE a = 0 -> 0 [] a = 1 -> 425937 [] a = 2 -> 50048
      [] a = 3 -> 259584 [] a = 4 -> 718174 [] a = 9 -> 560190
      [] a = 10 -> 332595 [] a = 11 -> 495688 [] a = 12 -> 26264
      [] a = 13 -> 786647 [] a = 40 -> 906627 [] a = 41 -> 731057
      [] a = 42 -> 124376 [] a = 43 -> 227130 [] a = 44 -> 767429
      [] a = 58 -> 308549 [] a = 59 -> 348846 [] a = 60 -> 432502
      [] a = 61 -> 658508 [] a = 62 -> 337812 [] a = 93 -> 859239
      [] a = 94 -> 449404 [] a = 95 -> 414798 [] a = 96 -> 641185
      [] a = 97 -> 198355 [] a = 116 -> 970157 [] a = 117 -> 157925
      [] a = 118 -> 579661 [] a = 119 -> 633226 [] a = 120 -> 486328
      [] a = 121 -> 598209 [] a = 122 -> 769134 [] a = 218 -> 430070
      [] a = 219 -> 428764 [] a = 220 -> 449571 [] a = 221 -> 378240
      [] a = 222 -> 382141 [] a = 10000 -> 985608 [] a = 10001 -> 50582
      [] a = 10002 -> 444273 [] a = 10009 -> 897471 [] a = 10010 -> 971700
      [] a = 10011 -> 809489 [] a = 10040 -> 260526 [] a = 10041 -> 271471
      [] a = 10042 -> 230295 [] a = 10058 -> 878430 [] a = 10059 -> 297229
      [] a = 10060 -> 962715 [] a = 10093 -> 860424 [] a = 10094 -> 148920
      [] a = 10095 -> 123262 [] a = 10116 -> 378130 [] a = 10117 -> 473946
      [] a = 10118 -> 100515 [] a = 10119 -> 633482 [] a = 10120 -> 349365
      [] a = 10218 -> 863083 [] a = 10219 -> 743914 [] a = 10220 -> 423370

\* noise1(seed, y) with y = num / den given as a fraction (den > 0): the result
\* in millionths.
noise1(seed, num, den) ==
    LET y0 == num \div den
        y1 == y0 + 1
        t  == ((num % den) * Milli) \div den            \* thousandths
        smooth == (((t * t) \div Milli) * (3 * Milli - 2 * t)) \div Milli
    IN  (rnd(y0 + seed) * (Milli - smooth) + rnd(y1 + seed) * smooth) \div Milli

\* roadCenterX(seed, yMeters), y and the result in millimetres:
\* yMeters * 0.0025 = y_mm / 400000.
roadCenterX(seed, y) == ((noise1(seed, y, 400 * Milli) * 2 - Micro) * 25) \div Milli

\* poiForY(seed, yMeters), y in millimetres.
poiForY(seed, y) ==
    LET k == y \div (SEG * Milli)
        r == noise1(seed + 9999, k, 1)
        type == IF r < 220000 THEN "gas"
                ELSE IF r < 380000 THEN "hotel"
                ELSE IF r < 540000 THEN "store"
                ELSE IF r < 680000 THEN "town" ELSE "none"
        mid == k * SEG * Milli + (SEG * Milli) \div 2
        centerX == roadCenterX(seed, mid)
        side == IF r < 500000 THEN -1 ELSE 1
    IN  [ k |-> k, type |-> type, x |-> centerX + side * phys.poiOffset, y |-> mid,
          radius |-> IF type = "town" THEN phys.townRadius ELSE phys.poiRadius ]

(***************************************************************************)
(* Values of the model.                                                    *)
(***************************************************************************)
\* Socket ids: the numbers stand for the opaque socket.id strings.
Conns == 1..NumConns

\* Strings that the code slices, trims or changes the case of are sequences of
\* one-character strings.
CODE_CHARS == << "A","B","C","D","E","F","G","H","J","K","M","N","P","Q","R","S",
                 "T","U","V","W","X","Y","Z","2","3","4","5","6","7","8","9" >>

\* The codes makeCode() may return (server.js:23-27), as many as NumCodes allows.
CodePool == << <<"R","T","R","P","2","3">>, <<"H","W","Y","6","6","X">>,
               <<"F","U","E","K","9","9">> >>
Codes == { CodePool[i] : i \in 1..Min(NumCodes, Len(CodePool)) }

\* Mutant: a socket starts with the first code as its joinedCode.
NullNamesARoom == CodePool[1]

\* joinedCode = null (server.js:193): no room has this key.
Null == << "null" >>

LowerChars == << "a","b","c","d","e","f","g","h","j","k","m","n","p","q","r","s",
                 "t","u","v","w","x","y","z" >>

\* String.prototype.toUpperCase, on the characters the model uses.
ToUpperChar(ch) ==
    IF \E i \in 1..Len(LowerChars) : LowerChars[i] = ch
    THEN CODE_CHARS[CHOOSE i \in 1..Len(LowerChars) : LowerChars[i] = ch]
    ELSE ch
toUpperCase(s) == [ i \in 1..Len(s) |-> ToUpperChar(s[i]) ]

\* String.prototype.trim: leading and trailing blanks go.
RECURSIVE TrimLeft(_)
TrimLeft(s) == IF s # <<>> /\ Head(s) = " " THEN TrimLeft(Tail(s)) ELSE s
RECURSIVE TrimRight(_)
TrimRight(s) == IF s # <<>> /\ s[Len(s)] = " " THEN TrimRight(SubSeq(s, 1, Len(s) - 1)) ELSE s
trim(s) == TrimRight(TrimLeft(s))

\* String.prototype.slice(0, n)
slice(s, n) == SubSeq(s, 1, Min(n, Len(s)))

\* code = (code || "").toUpperCase().trim()  (server.js:212; the second copy
\* trims first, server.js:432).  A missing code is the empty string.
NormCode(raw) == trim(toUpperCase(raw))

\* name?.slice(0,18) || "Driver"  (server.js:202, 217); a missing name is the
\* empty string, which is falsy as well.
NormName(raw) == IF slice(raw, NAME_MAX) = <<>> THEN <<"D","r","i","v","e","r">>
                 ELSE slice(raw, NAME_MAX)

\* color || dflt; a missing color is "".
NormColor(raw, dflt) == IF raw = "" THEN dflt ELSE raw

\* What a client may send as { name, color }.
LongName == << "M","a","x","i","m","i","l","i","a","n","-","T","h","e","-","1","s","t","!" >>
Profiles == { [name |-> LongName, color |-> ""] }

\* What a client may send as joinRoom's code: a code as makeCode spells it, the
\* first code typed in lower case with blanks around it, or nothing.
TypedCode == << " ", "r","t","r","p","2","3", " " >>
JoinInputs == Codes \cup { TypedCode, <<>> }

\* A numeric field of an input message: a number (in thousandths), or something
\* that unary plus turns into NaN (a missing field, a non-numeric string).
Num(v) == [nan |-> FALSE, v |-> v]
NaN == [nan |-> TRUE, v |-> 0]
\* +raw || 0
ToNumber(raw) == IF raw.nan THEN 0 ELSE raw.v
\* !!raw, for the JavaScript values the model sends (named by their source text)
Truthy(raw) == raw \in {"true", "1", "'yes'"}

\* What a client may send as input data.
InputPool == { [throttle |-> Num(1000), brake |-> NaN, steer |-> Num(2500), refuel |-> "1"] }
ReadyPool == { "true", "undefined" }

(***************************************************************************)
(* Lookups in the two insertion-ordered maps: rooms (by code) and           *)
(* room.players (by socket id).                                             *)
(***************************************************************************)
HasRoom(rs, code) == \E i \in 1..Len(rs) : rs[i].code = code
RoomIdx(rs, code) == CHOOSE i \in 1..Len(rs) : rs[i].code = code
RoomOf(rs, code) == rs[RoomIdx(rs, code)]

HasPlayer(ps, id) == \E i \in 1..Len(ps) : ps[i].id = id
PlayerIdx(ps, id) == CHOOSE i \in 1..Len(ps) : ps[i].id = id
PlayerOf(ps, id) == ps[PlayerIdx(ps, id)]

\* room.players[id] = p: a key that exists keeps its place, a new one goes last.
PutPlayer(ps, id, p) == IF HasPlayer(ps, id) THEN [ps EXCEPT ![PlayerIdx(ps, id)] = p]
                        ELSE Append(ps, p)

\* delete room.players[id]
DeletePlayer(ps, id) == LET Keep(q) == q.id # id IN SelectSeq(ps, Keep)

(***************************************************************************)
(* makePlayer (server.js:64-74), snapshotRoom (server.js:76-86).            *)
(***************************************************************************)
makePlayer(id, name, color, t) ==
    [ id |-> id, name |-> name, color |-> color,
      x |-> 0, y |-> 0, angle |-> 0, vx |-> 0, vy |-> 0, speed |-> 0,
      fuel |-> 100 * Milli, maxFuel |-> 100 * Milli,
      throttle |-> 0, brake |-> 0, steer |-> 0, refuel |-> FALSE,
      distance |-> 0, ready |-> FALSE, isHost |-> FALSE, lastHeard |-> t ]

LobbyEntry(p) == [ id |-> p.id, name |-> p.name, color |-> p.color,
                   ready |-> p.ready, isHost |-> p.isHost, distance |-> p.distance ]

snapshotRoom(room) ==
    [ code |-> room.code, phase |-> room.phase, seed |-> room.seed,
      players |-> [ i \in 1..Len(room.players) |-> LobbyEntry(room.players[i]) ] ]

\* Outbound messages: socket.emit(ev, data) and io.to(code).emit(ev, data).
ToSocket(id, ev, data) == [ to |-> "socket", id |-> id, code |-> Null, ev |-> ev, data |-> data ]
ToRoom(code, ev, data) == [ to |-> "room", id |-> 0, code |-> code, ev |-> ev, data |-> data ]

Joined(room, id) == [ snap |-> snapshotRoom(room), playerId |-> id ]

(***************************************************************************)
(* tickRoom (server.js:114-180): one fixed step of DT = 1/TICK_HZ seconds   *)
(* for one player, then the state payload.                                  *)
(***************************************************************************)
\* Math.hypot(px - poi.x, py - poi.y) <= poi.radius + 3, without a square root
near(px, py, poi) ==
    LET ddx == Abs(px - poi.x)
        ddy == Abs(py - poi.y)
        lim == poi.radius + phys.reach
    IN  ddx <= lim /\ ddy <= lim /\ ddx * ddx + ddy * ddy <= lim * lim

\* Mutant: the idle timeout is never applied.
isIdleNever(p, t) == FALSE

\* nowMs() - p.lastHeard > 10000 (server.js:127)
isIdle(p, t) == t - p.lastHeard > IDLE_MS

\* Mutant: only the upper speed limit is applied.
limitSpeedForwardOnly(s) == IF s > phys.maxSpeed THEN phys.maxSpeed ELSE s

\* The two speed limits (server.js:139-140)
limitSpeed(s) == IF s > phys.maxSpeed THEN phys.maxSpeed
                 ELSE IF s < phys.minSpeed THEN phys.minSpeed ELSE s

\* Mutant: the odometer follows dy whatever its sign.
odometerSigned(distance, dy) == distance + dy

\* if (dy > 0) p.distance += dy (server.js:150)
odometer(distance, dy) == IF dy > 0 THEN distance + dy ELSE distance

\* Mutant: every POI that is not "none" sells fuel.
sellsFuelAnyPoi(type) == type # "none"

\* The POI types that refuel (server.js:160)
sellsFuel(type) == type \in {"gas", "town", "store"}

\* The body of the loop over the players (server.js:127-166); t is nowMs().
StepPlayer(seed, p, t) ==
    LET idle == isIdle(p, t)
        throttle == IF idle THEN 0 ELSE p.throttle
        brake    == IF idle THEN 0 ELSE p.brake
        steer    == IF idle THEN 0 ELSE p.steer
        refuel   == IF idle THEN FALSE ELSE p.refuel
        cx     == roadCenterX(seed, p.y)
        onRoad == Abs(p.x - cx) <= phys.roadHalfW
        aFwdDT == (throttle * phys.accel - brake * phys.brake) \div (Milli * TICK_HZ)
        s1 == p.speed + aFwdDT
        s2 == MulMicro(s1, IF onRoad THEN phys.baseFrictionDT ELSE phys.offroadFrictionDT)
        s3 == limitSpeed(s2)
        steerFactor == 200 + (800 * Min(Abs(s3), phys.maxSpeed)) \div phys.maxSpeed
        angle == p.angle + (((steer * phys.turnRate) \div Milli) * steerFactor) \div (Milli * TICK_HZ)
        dx == (SinMilli(angle) * s3) \div (Milli * TICK_HZ)
        dy == (CosMilli(angle) * s3) \div (Milli * TICK_HZ)
        x == p.x + dx
        y == p.y + dy
        distance == odometer(p.distance, dy)
        burn == (((phys.fuelBurn * throttle) \div Milli)
                   * (IF onRoad THEN Milli ELSE phys.offroadBurn)) \div Milli
        f1 == IF throttle > 0 /\ s3 > phys.burnSpeed THEN Max(0, p.fuel - burn) ELSE p.fuel
        poi == poiForY(seed, y)
        f2 == IF refuel /\ f1 < p.maxFuel
                 /\ sellsFuel(poi.type) /\ near(x, y, poi)
              THEN Min(p.maxFuel, f1 + phys.refuelRate \div TICK_HZ)
              ELSE f1
        s4 == IF f2 <= 0 /\ s3 > 0 THEN MulMicro(s3, phys.emptyDecayDT) ELSE s3
    IN  [ p EXCEPT !.throttle = throttle, !.brake = brake, !.steer = steer,
                   !.refuel = refuel, !.speed = s4, !.angle = angle,
                   !.x = x, !.y = y, !.distance = distance, !.fuel = f2 ]

StateEntry(p) == [ id |-> p.id, name |-> p.name, color |-> p.color,
                   x |-> p.x, y |-> p.y, angle |-> p.angle, speed |-> p.speed,
                   fuel |-> p.fuel, maxFuel |-> p.maxFuel, distance |-> p.distance ]

\* The room after tickRoom(room) at time t.
tickRoom(room, t) ==
    [ room EXCEPT !.players = [ i \in 1..Len(room.players) |->
                                  StepPlayer(room.seed, room.players[i], t) ] ]

\* The payload tickRoom emits for a room it has stepped (server.js:169-179).
statePayload(room, t) ==
    [ phase |-> room.phase, seed |-> room.seed,
      players |-> [ i \in 1..Len(room.players) |-> StateEntry(room.players[i]) ],
      t |-> t ]

\* Mutant: the sweep forgets to test that the room is empty.
destroyStaleRooms(rs, t) ==
    LET Keep(r) == ~((t - r.createdAt) > ROOM_TTL_MS)
    IN  SelectSeq(rs, Keep)

\* destroyEmptyStaleRooms (server.js:103-112) at time t.
destroyEmptyStaleRooms(rs, t) ==
    LET Keep(r) == ~(Len(r.players) = 0 /\ (t - r.createdAt) > ROOM_TTL_MS)
    IN  SelectSeq(rs, Keep)

\* The interval callback (server.js:182-189): every running room is stepped,
\* in the order of Object.keys(rooms), then the sweep runs.
IsRunning(r) == r.phase = "running"
\* Mutant: the callback steps every room, whatever its phase.
steppedRoomsAnyPhase(rs, t) == [ i \in 1..Len(rs) |-> tickRoom(rs[i], t) ]
steppedRooms(rs, t) == [ i \in 1..Len(rs) |-> IF IsRunning(rs[i]) THEN tickRoom(rs[i], t) ELSE rs[i] ]
tickMessages(rs, t) ==
    LET run == SelectSeq(steppedRooms(rs, t), IsRunning)
    IN  [ i \in 1..Len(run) |-> ToRoom(run[i].code, "state", statePayload(run[i], t)) ]
intervalRooms(rs, t) == destroyEmptyStaleRooms(steppedRooms(rs, t), t)
\* The codes that run of the callback deleted.
sweptCodes(rs, t) == { rs[i].code : i \in 1..Len(rs) } \ { r.code : r \in { intervalRooms(rs, t)[i] : i \in 1..Len(intervalRooms(rs, t)) } }

(***************************************************************************)
(* The socket handlers (server.js:192-275).                                *)
(***************************************************************************)
Live == DOMAIN joinedCode


\* One more client message is taken, while the model's budget lasts.
Taken == msgs < MaxMsgs /\ msgs' = msgs + 1

\* A function with one more / one fewer key.
With(f, k, v) == [ x \in DOMAIN f \cup {k} |-> IF x = k THEN v ELSE f[x] ]
Without(f, k) == [ x \in DOMAIN f \ {k} |-> f[x] ]

\* Mutant: the host test of startGame is left out.
mayStartAnyMember(rs, code, c) ==
    /\ HasRoom(rs, code)
    /\ HasPlayer(RoomOf(rs, code).players, c)

\* The guard of startGame (server.js:233-235): the sender's room exists, holds
\* the sender, and the sender is its host.
mayStart(rs, code, c) ==
    /\ HasRoom(rs, code)
    /\ HasPlayer(RoomOf(rs, code).players, c)
    /\ PlayerOf(RoomOf(rs, code).players, c).isHost

\* The record of the event handled last: the handler, the socket it ran for
\* (0 for the timer), the message's data (joinRoom's code as received, input's
\* data and the controls it found stored), whether the sender's joinedCode
\* named a room and whether the sender held the host flag there when the event
\* came in, and the codes a tick swept.
Event(op, id, arg) ==
    [ op |-> op, id |-> id, arg |-> arg,
      joined |-> id \in DOMAIN joinedCode /\ HasRoom(rooms, joinedCode[id]),
      host |-> id \in DOMAIN joinedCode /\ mayStart(rooms, joinedCode[id], id),
      swept |-> {} ]

\* io.on("connection") (server.js:192-193)
Connection(c) ==
    /\ c \notin Live /\ c \notin closed
    /\ joinedCode' = With(joinedCode, c, Null)
    /\ subs' = With(subs, c, {})
    /\ last' = Event("connection", c, <<>>)
    /\ sent' = <<>>
    /\ UNCHANGED <<rooms, closed, now, ticks, msgs>>

\* createRoom() (server.js:89-101): a code no room has, a seed, an empty lobby.
createRoom(code, seed, t) ==
    [ code |-> code, createdAt |-> t, seed |-> seed, phase |-> "lobby",
      players |-> <<>>, lastTick |-> t ]

\* The creator's player record (server.js:202-203).
hostPlayer(c, prof, t) ==
    [ makePlayer(c, NormName(prof.name), NormColor(prof.color, "#5ec8f8"), t)
        EXCEPT !.isHost = TRUE ]

\* socket.on("createRoom") (server.js:200-209)
CreateRoom(c, prof, code, seed) ==
    /\ c \in Live
    /\ ~HasRoom(rooms, code)
    /\ LET room == [ createRoom(code, seed, now) EXCEPT
                       !.players = PutPlayer(@, c, hostPlayer(c, prof, now)) ]
       IN  /\ rooms' = Append(rooms, room)
           /\ sent' = << ToSocket(c, "joined", Joined(room, c)),
                         ToRoom(code, "lobby", snapshotRoom(room)) >>
    /\ joinedCode' = [joinedCode EXCEPT ![c] = code]
    /\ subs' = [subs EXCEPT ![c] = @ \cup {code}]
    /\ last' = Event("createRoom", c, <<>>)
    /\ Taken
    /\ UNCHANGED <<closed, now, ticks>>

\* Mutant: the capacity is tested before the phase.
joinErrorFullFirst(rs, code) ==
    IF ~HasRoom(rs, code) THEN "Room not found."
    ELSE IF Len(RoomOf(rs, code).players) >= MAX_PLAYERS THEN "Room full."
    ELSE IF RoomOf(rs, code).phase # "lobby" THEN "Game already started."
    ELSE ""

\* Mutant: the capacity test is off by one.
joinErrorOffByOne(rs, code) ==
    IF ~HasRoom(rs, code) THEN "Room not found."
    ELSE IF RoomOf(rs, code).phase # "lobby" THEN "Game already started."
    ELSE IF Len(RoomOf(rs, code).players) > MAX_PLAYERS THEN "Room full."
    ELSE ""

\* The three refusals of joinRoom, in the order the code tests them
\* (server.js:214-216); "" when the join goes through.
joinError(rs, code) ==
    IF ~HasRoom(rs, code) THEN "Room not found."
    ELSE IF RoomOf(rs, code).phase # "lobby" THEN "Game already started."
    ELSE IF Len(RoomOf(rs, code).players) >= MAX_PLAYERS THEN "Room full."
    ELSE ""

\* Mutant: the joiner's record is built as the creator's is, host flag set.
guestPlayerAsHost(c, prof, t) ==
    [ makePlayer(c, NormName(prof.name), NormColor(prof.color, "#f6a93b"), t)
        EXCEPT !.isHost = TRUE ]

\* The joiner's player record (server.js:217).
guestPlayer(c, prof, t) == makePlayer(c, NormName(prof.name), NormColor(prof.color, "#f6a93b"), t)

\* The room table after a join that goes through (server.js:218).
joinedRooms(rs, code, p) ==
    [ rs EXCEPT ![RoomIdx(rs, code)].players = PutPlayer(@, p.id, p) ]

\* socket.on("joinRoom") (server.js:211-223)
JoinRoom(c, raw, prof) ==
    /\ c \in Live
    /\ LET code == NormCode(raw)
           err  == joinError(rooms, code)
           rs   == joinedRooms(rooms, code, guestPlayer(c, prof, now))
       IN  IF err # ""
           THEN /\ sent' = << ToSocket(c, "errorMsg", err) >>
                /\ UNCHANGED <<rooms, joinedCode, subs>>
           ELSE /\ rooms' = rs
                /\ joinedCode' = [joinedCode EXCEPT ![c] = code]
                /\ subs' = [subs EXCEPT ![c] = @ \cup {code}]
                /\ sent' = << ToSocket(c, "joined", Joined(RoomOf(rs, code), c)),
                              ToRoom(code, "lobby", snapshotRoom(RoomOf(rs, code))) >>
    /\ last' = Event("joinRoom", c, raw)
    /\ Taken
    /\ UNCHANGED <<closed, now, ticks>>

\* The two early returns every later handler starts with: rooms[joinedCode]
\* is a room, and it holds a player under socket.id.
InRoom(c) == HasRoom(rooms, joinedCode[c])
IsMember(c) == InRoom(c) /\ HasPlayer(RoomOf(rooms, joinedCode[c]).players, c)

\* socket.on("setReady") (server.js:225-230)
SetReady(c, raw) ==
    /\ c \in Live
    /\ IF IsMember(c)
       THEN LET i  == RoomIdx(rooms, joinedCode[c])
                rs == [ rooms EXCEPT ![i].players[PlayerIdx(rooms[i].players, c)].ready = Truthy(raw) ]
            IN  /\ rooms' = rs
                /\ sent' = << ToRoom(joinedCode[c], "lobby", snapshotRoom(rs[i])) >>
       ELSE /\ sent' = <<>>
            /\ UNCHANGED rooms
    /\ last' = Event("setReady", c, <<>>)
    /\ Taken
    /\ UNCHANGED <<joinedCode, subs, closed, now, ticks>>

\* socket.on("startGame") (server.js:232-238)
StartGame(c) ==
    /\ c \in Live
    /\ IF mayStart(rooms, joinedCode[c], c)
       THEN LET i == RoomIdx(rooms, joinedCode[c])
            IN  /\ rooms' = [ rooms EXCEPT ![i].phase = "running" ]
                /\ sent' = << ToRoom(joinedCode[c], "start", [seed |-> rooms[i].seed]) >>
       ELSE /\ sent' = <<>>
            /\ UNCHANGED rooms
    /\ last' = Event("startGame", c, <<>>)
    /\ Taken
    /\ UNCHANGED <<joinedCode, subs, closed, now, ticks>>

\* Mutant: the upper limit is left out.
clampBelowOnly(lo, hi, raw) == Max(lo, ToNumber(raw))

\* Math.max(lo, Math.min(hi, +raw || 0)) (server.js:243-245)
clamp(lo, hi, raw) == Max(lo, Min(hi, ToNumber(raw)))

\* Mutant: a field the message does not carry keeps its stored value.
applyInputMerging(p, data, t) ==
    [ p EXCEPT !.throttle = IF data.throttle.nan THEN @ ELSE clamp(0, Milli, data.throttle),
               !.brake    = IF data.brake.nan THEN @ ELSE clamp(0, Milli, data.brake),
               !.steer    = IF data.steer.nan THEN @ ELSE clamp(-Milli, Milli, data.steer),
               !.refuel   = IF data.refuel = "undefined" THEN @ ELSE Truthy(data.refuel),
               !.lastHeard = t ]

\* The four control fields of a player record.
Controls(p) == [ throttle |-> p.throttle, brake |-> p.brake, steer |-> p.steer,
                 refuel |-> p.refuel ]

\* The player record after an input message (server.js:243-247).
applyInput(p, data, t) ==
    [ p EXCEPT !.throttle = clamp(0, Milli, data.throttle),
               !.brake    = clamp(0, Milli, data.brake),
               !.steer    = clamp(-Milli, Milli, data.steer),
               !.refuel   = Truthy(data.refuel),
               !.lastHeard = t ]

\* socket.on("input") (server.js:240-248)
Input(c, data) ==
    /\ c \in Live
    /\ IF IsMember(c)
       THEN LET i == RoomIdx(rooms, joinedCode[c])
                j == PlayerIdx(rooms[i].players, c)
            IN  rooms' = [ rooms EXCEPT ![i].players[j] = applyInput(@, data, now) ]
       ELSE UNCHANGED rooms
    /\ sent' = <<>>
    /\ last' = Event("input", c,
                     [ data |-> data,
                       found |-> IF IsMember(c)
                                 THEN << Controls(PlayerOf(RoomOf(rooms, joinedCode[c]).players, c)) >>
                                 ELSE <<>> ])
    /\ Taken
    /\ UNCHANGED <<joinedCode, subs, closed, now, ticks>>

\* Mutant: an emptied room keeps its creation time.
backdateNever(room, t) == room

\* What a departure does to a room once the player is deleted: an empty room
\* is backdated past the TTL (server.js:255, 268).
backdate(room, t) ==
    IF Len(room.players) = 0 THEN [ room EXCEPT !.createdAt = t - ROOM_TTL_MS - 1 ] ELSE room

\* Mutant: a room the last player leaves goes back to the lobby.
leaveRoomReopens(room, c, t) ==
    LET r == backdate([ room EXCEPT !.players = DeletePlayer(@, c) ], t)
    IN  IF Len(r.players) = 0 THEN [ r EXCEPT !.phase = "lobby" ] ELSE r

\* The room after leaveRoom's delete (server.js:252-255).
leaveRoom(room, c, t) == backdate([ room EXCEPT !.players = DeletePlayer(@, c) ], t)

\* socket.on("leaveRoom") (server.js:250-257)
LeaveRoom(c) ==
    /\ c \in Live
    /\ IF InRoom(c)
       THEN LET i == RoomIdx(rooms, joinedCode[c])
                r == leaveRoom(rooms[i], c, now)
            IN  /\ rooms' = [ rooms EXCEPT ![i] = r ]
                /\ joinedCode' = [joinedCode EXCEPT ![c] = Null]
                /\ subs' = [subs EXCEPT ![c] = @ \ {joinedCode[c]}]
                /\ sent' = IF Len(r.players) = 0 THEN <<>>
                           ELSE << ToRoom(r.code, "lobby", snapshotRoom(r)) >>
       ELSE /\ sent' = <<>>
            /\ UNCHANGED <<rooms, joinedCode, subs>>
    /\ last' = Event("leaveRoom", c, <<>>)
    /\ Taken
    /\ UNCHANGED <<closed, now, ticks>>

\* The host handoff of disconnect (server.js:264-267): ps is the player map
\* after the delete.
handoff(ps, wasHost) ==
    IF wasHost /\ Len(ps) > 0 THEN [ ps EXCEPT ![1].isHost = TRUE ] ELSE ps

\* The room after disconnect's delete, handoff and backdating (server.js:262-268).
disconnectRoom(room, c, t) ==
    LET wasHost == HasPlayer(room.players, c) /\ PlayerOf(room.players, c).isHost
    IN  backdate([ room EXCEPT !.players = handoff(DeletePlayer(@, c), wasHost) ], t)

\* socket.on("disconnect") (server.js:259-274).  The socket is gone afterwards:
\* its closure variable and its transport rooms go with it.
Disconnect(c) ==
    /\ c \in Live
    /\ IF InRoom(c)
       THEN LET i == RoomIdx(rooms, joinedCode[c])
                r == disconnectRoom(rooms[i], c, now)
            IN  /\ rooms' = [ rooms EXCEPT ![i] = r ]
                /\ sent' = IF Len(r.players) = 0 THEN <<>>
                           ELSE IF r.phase = "lobby"
                                THEN << ToRoom(r.code, "lobby", snapshotRoom(r)) >>
                                ELSE << ToRoom(r.code, "state", [players |-> r.players]) >>
       ELSE /\ sent' = <<>>
            /\ UNCHANGED rooms
    /\ joinedCode' = Without(joinedCode, c)
    /\ subs' = Without(subs, c)
    /\ closed' = closed \cup {c}
    /\ last' = Event("disconnect", c, <<>>)
    /\ UNCHANGED <<now, ticks, msgs>>

\* The gaps between two runs of the interval callback: the period, or longer
\* when the event loop was held up.
Gaps == { TICK_MS }

\* The interval callback run gap milliseconds after the last one
\* (server.js:183-188).
Interval(gap) ==
    /\ now' = now + gap
    /\ ticks' = ticks + 1
    /\ rooms' = intervalRooms(rooms, now + gap)
    /\ sent' = tickMessages(rooms, now + gap)
    /\ last' = [ Event("tick", 0, <<>>) EXCEPT !.swept = sweptCodes(rooms, now + gap) ]
    /\ UNCHANGED <<joinedCode, subs, closed, msgs>>

\* setInterval(..., 1000 / TICK_HZ) (server.js:182-189), MaxTicks times.
Tick(gap) == ticks < MaxTicks /\ Interval(gap)

Init == /\ rooms = <<>>
        /\ joinedCode = <<>>
        /\ subs = <<>>
        /\ closed = {}
        /\ now = 0
        /\ ticks = 0
        /\ msgs = 0
        /\ last = Event("boot", 0, <<>>)
        /\ sent = <<>>

Next == \/ \E c \in Conns : Connection(c)
        \/ \E c \in Conns, prof \in Profiles, code \in Codes, seed \in Seeds :
              CreateRoom(c, prof, code, seed)
        \/ \E c \in Conns, raw \in JoinInputs, prof \in Profiles : JoinRoom(c, raw, prof)
        \/ \E c \in Conns, raw \in ReadyPool : SetReady(c, raw)
        \/ \E c \in Conns : StartGame(c)
        \/ \E c \in Conns, data \in InputPool : Input(c, data)
        \/ \E c \in Conns : LeaveRoom(c)
        \/ \E c \in Conns : Disconnect(c)
        \/ \E gap \in Gaps : Tick(gap)

Spec == Init /\ [][Next]_vars

(***************************************************************************)
(* A lobby one short of full.  Sockets 101..111 have connected; 101 has     *)
(* created the first code's room and the others have joined it, all at      *)
(* time 0.  From there the sockets of Conns connect, join and leave, and    *)
(* the host may leave or start the game.                                    *)
(***************************************************************************)
Crowd == 101..(100 + MAX_PLAYERS - 1)
CrowdHost == 100 + 1
CrowdCode == CodePool[1]
CrowdProfile == [name |-> <<>>, color |-> "#c0ffee"]

RECURSIVE CrowdRooms(_)
CrowdRooms(k) ==
    IF k = CrowdHost
    THEN << [ createRoom(CrowdCode, SeedPool[1], 0) EXCEPT
                !.players = PutPlayer(@, k, hostPlayer(k, CrowdProfile, 0)) ] >>
    ELSE joinedRooms(CrowdRooms(k - 1), CrowdCode, guestPlayer(k, CrowdProfile, 0))

InitCap == /\ rooms = CrowdRooms(100 + MAX_PLAYERS - 1)
           /\ joinedCode = [ c \in Crowd |-> CrowdCode ]
           /\ subs = [ c \in Crowd |-> {CrowdCode} ]
           /\ closed = {}
           /\ now = 0
           /\ ticks = 0
           /\ msgs = 0
           /\ last = Event("boot", 0, <<>>)
           /\ sent = <<>>

NextCap == \/ \E c \in Conns : Connection(c)
           \/ \E c \in Conns, raw \in JoinInputs, prof \in Profiles : JoinRoom(c, raw, prof)
           \/ \E c \in Conns \cup {CrowdHost} : LeaveRoom(c)
           \/ \E c \in Conns : Disconnect(c)
           \/ StartGame(CrowdHost)
           \/ \E gap \in Gaps : Tick(gap)

SpecCap == InitCap /\ [][NextCap]_vars

(***************************************************************************)
(* The room table over long times.  The interval callback may also run an  *)
(* hour late (a lobby nobody touches for an hour looks the same to the      *)
(* sweep: the ticks in between change nothing in it).  Only the handlers    *)
(* that change a room's membership or phase take part.                      *)
(***************************************************************************)
LongGaps == { TICK_MS, ROOM_TTL_MS + 1 }

NextTTL == \/ \E c \in Conns : Connection(c)
           \/ \E c \in Conns, prof \in Profiles, code \in Codes, seed \in Seeds :
                 CreateRoom(c, prof, code, seed)
           \/ \E c \in Conns, raw \in JoinInputs, prof \in Profiles : JoinRoom(c, raw, prof)
           \/ \E c \in Conns : StartGame(c)
           \/ \E c \in Conns : LeaveRoom(c)
           \/ \E c \in Conns : Disconnect(c)
           \/ \E gap \in LongGaps : Tick(gap)

SpecTTL == Init /\ [][NextTTL]_vars

(***************************************************************************)
(* The timer never stops.  Here the callback keeps running after the tick  *)
(* budget is spent for as long as the table holds an empty room, and the   *)
(* timer is weakly fair: setInterval fires again and again.                *)
(***************************************************************************)
SomeRoomEmpty == \E i \in 1..Len(rooms) : Len(rooms[i].players) = 0

DueTick(gap) == (ticks < MaxTicks \/ SomeRoomEmpty) /\ Interval(gap)

NextLive == \/ \E c \in Conns : Connection(c)
            \/ \E c \in Conns, prof \in Profiles, code \in Codes, seed \in Seeds :
                  CreateRoom(c, prof, code, seed)
            \/ \E c \in Conns, raw \in JoinInputs, prof \in Profiles : JoinRoom(c, raw, prof)
            \/ \E c \in Conns : StartGame(c)
            \/ \E c \in Conns : LeaveRoom(c)
            \/ \E c \in Conns : Disconnect(c)
            \/ \E gap \in Gaps : DueTick(gap)

\* The steps of the timer, told by the tick counter: among the steps of
\* NextLive they are exactly those of DueTick.
TimerFires == (ticks < MaxTicks \/ SomeRoomEmpty) /\ ticks' = ticks + 1

SpecLive == Init /\ [][NextLive]_vars /\ WF_ticks(TimerFires)

(***************************************************************************)
(* Races.  One running room with one player, socket 1, who created it and   *)
(* started it at time 0.  Each initial state is the race some ticks in, as  *)
(* the model's own input and step operators leave it after a client that    *)
(* sent the same input before every tick and then, perhaps, fell silent.    *)
(* From there the player sends inputs from RaceInputs and the timer ticks.  *)
(***************************************************************************)
MaxRaceTicks == 2

RaceSeeds == { RaceSeedPool[i] : i \in 1..Len(RaceSeedPool) }
RaceCode == CodePool[1]
Racer == 1

\* The inputs the scripted clients repeat.
Cruise  == [throttle |-> Num(1000), brake |-> NaN, steer |-> NaN, refuel |-> "true"]
Reverse == [throttle |-> NaN, brake |-> Num(1000), steer |-> NaN, refuel |-> "undefined"]
Donut   == [throttle |-> Num(1000), brake |-> NaN, steer |-> Num(1000), refuel |-> "undefined"]

\* What the racer may send once the script is over: numbers out of range,
\* missing fields, brakes.
RaceInputs == { [throttle |-> Num(7000), brake |-> Num(-300), steer |-> Num(-2500), refuel |-> "'yes'"],
                [throttle |-> NaN, brake |-> Num(1000), steer |-> Num(500), refuel |-> "undefined"],
                Cruise }

\* The player after n rounds of: input data at time t, tick at t + TICK_MS.
\* The rounds are split in halves, and the first half is worked out (h = h)
\* before the second starts, to keep the evaluation shallow.
RECURSIVE Drive(_, _, _, _, _)
Drive(seed, p, data, t, n) ==
    IF n = 0 THEN p
    ELSE IF n = 1 THEN StepPlayer(seed, applyInput(p, data, t), t + TICK_MS)
    ELSE LET h == Drive(seed, p, data, t, n \div 2)
         IN  IF h = h THEN Drive(seed, h, data, t + (n \div 2) * TICK_MS, n - n \div 2)
             ELSE p

\* The player after n more ticks with no input, the last tick having run at t.
RECURSIVE Coast(_, _, _, _)
Coast(seed, p, t, n) ==
    IF n = 0 THEN p
    ELSE IF n = 1 THEN StepPlayer(seed, p, t + TICK_MS)
    ELSE LET h == Coast(seed, p, t, n \div 2)
         IN  IF h = h THEN Coast(seed, h, t + (n \div 2) * TICK_MS, n - n \div 2)
             ELSE p

\* The checkpoints of the scripts: ticks driven, then ticks coasted.
\* Cruising straight on, the car reaches top speed at tick 172 and passes the
\* POI between ticks 246 and 263; in reverse it reaches the limit at tick 22;
\* turning on the spot at full throttle it runs dry at tick 3756; a client
\* silent since its 50th input is idle from its 200th silent tick on, rolling
\* forwards after a turn or backwards after reversing.
CruiseTicks  == {0, 171} \cup (245..252)
ReverseTicks == {20, 21}
DonutTicks   == {3754, 3755}
SilentTicks  == {198, 199}
HeardTicks   == 50

Script(seed, data, n, quiet) == [ seed |-> seed, data |-> data, n |-> n, quiet |-> quiet ]
Scripts ==
    { Script(seed, Cruise, n, 0) : seed \in RaceSeeds, n \in CruiseTicks }
      \cup { Script(RaceSeedPool[1], Reverse, n, 0) : n \in ReverseTicks }
      \cup { Script(RaceSeedPool[1], Donut, n, 0) : n \in DonutTicks }
      \cup { Script(RaceSeedPool[1], data, HeardTicks, q) : data \in {Donut, Reverse}, q \in SilentTicks }

\* The room a script leaves behind, and the time on the clock then.
RaceNow(sc) == (sc.n + sc.quiet) * TICK_MS
RaceRoom(sc) ==
    LET p0 == hostPlayer(Racer, [name |-> <<>>, color |-> ""], 0)
        p1 == Drive(sc.seed, p0, sc.data, 0, sc.n)
        p2 == Coast(sc.seed, p1, sc.n * TICK_MS, sc.quiet)
    IN  [ createRoom(RaceCode, sc.seed, 0) EXCEPT !.phase = "running", !.players = << p2 >> ]

InitRace == \E sc \in Scripts :
              /\ rooms = << RaceRoom(sc) >>
              /\ joinedCode = [ c \in {Racer} |-> RaceCode ]
              /\ subs = [ c \in {Racer} |-> {RaceCode} ]
              /\ closed = {}
              /\ now = RaceNow(sc)
              /\ ticks = 0
              /\ msgs = 0
              /\ last = Event("boot", 0, <<>>)
              /\ sent = <<>>

\* The timer during a race, MaxRaceTicks times.
RaceTick(gap) == ticks < MaxRaceTicks /\ Interval(gap)

NextRace == \/ \E data \in RaceInputs : Input(Racer, data)
            \/ \E gap \in Gaps : RaceTick(gap)

SpecRace == InitRace /\ [][NextRace]_vars

(***************************************************************************)
(* The claims.                                                             *)
(***************************************************************************)
RoomIds == 1..Len(rooms)
Hosts(room) == { j \in 1..Len(room.players) : room.players[j].isHost }
\* The step just taken was handler op (the primed event record names it).
Handled(op) == last'.op = op

\* C1: whenever the host of a room departs, by leaveRoom or by disconnect, and
\* a player remains, then right after the departure exactly one remaining
\* player holds the host flag, and it is the first in insertion order.
C1_HostHandoffOnDeparture ==
    [][ (last'.op \in {"leaveRoom", "disconnect"} /\ last'.host)
          => LET code == joinedCode[last'.id]
                 after == RoomOf(rooms', code).players
             IN  Len(after) > 0 => ( Hosts(RoomOf(rooms', code)) = {1} ) ]_vars

\* C2: a room whose phase is running is still running after every step that
\* keeps it in the table.
C2_PhaseNeverReverts ==
    [][ \A i \in RoomIds :
          (rooms[i].phase = "running" /\ HasRoom(rooms', rooms[i].code))
            => RoomOf(rooms', rooms[i].code).phase = "running" ]_vars

\* C2 witness: the host of a running room has disconnected, the player left
\* behind has taken the host flag over, and the room is still running.
C2_Witness ==
    /\ last.op = "disconnect" /\ last.host
    /\ \E i \in RoomIds : /\ rooms[i].phase = "running"
                          /\ Len(rooms[i].players) > 0
                          /\ rooms[i].players[1].isHost
                          /\ sent = << ToRoom(rooms[i].code, "state", [players |-> rooms[i].players]) >>

\* C3: a room goes from lobby to running only in a startGame step of a socket
\* whose joinedCode is that room and whose record there holds the host flag;
\* a startGame of a member that is not host changes no room and emits nothing.
C3_OnlyHostStarts ==
    [][ /\ \A i \in RoomIds :
             ( /\ rooms[i].phase = "lobby"
               /\ HasRoom(rooms', rooms[i].code)
               /\ RoomOf(rooms', rooms[i].code).phase = "running" )
             => ( /\ Handled("startGame")
                  /\ last'.id \in Live
                  /\ joinedCode[last'.id] = rooms[i].code
                  /\ HasPlayer(rooms[i].players, last'.id)
                  /\ PlayerOf(rooms[i].players, last'.id).isHost )
        /\ ( /\ Handled("startGame")
             /\ last'.id \in Live
             /\ IsMember(last'.id)
             /\ ~PlayerOf(RoomOf(rooms, joinedCode[last'.id]).players, last'.id).isHost )
           => (rooms' = rooms /\ sent' = <<>>) ]_vars

\* C3 witness: a member that is not host has sent startGame; the room is
\* still in the lobby and nothing was emitted.
C3_Witness ==
    /\ last.op = "startGame" /\ ~last.host
    /\ last.id \in Live /\ IsMember(last.id)
    /\ RoomOf(rooms, joinedCode[last.id]).phase = "lobby"
    /\ Len(RoomOf(rooms, joinedCode[last.id]).players) > 1
    /\ sent = <<>>

\* A joinRoom step refused with errorMsg text: the one message goes to the
\* sender, and no room, player record or joinedCode changes.
Refused(text) ==
    /\ sent' = << ToSocket(last'.id, "errorMsg", text) >>
    /\ rooms' = rooms
    /\ joinedCode' = joinedCode

\* C4: joinRoom is refused with NotFound when the code names no room,
\* otherwise with AlreadyStarted when the room is not in the lobby, otherwise
\* with RoomFull when it holds 12 players or more; a refusal changes nothing
\* and its only message is one errorMsg to the sender.
C4_JoinRefusals ==
    [][ Handled("joinRoom") =>
          LET code == NormCode(last'.arg)
          IN  /\ ~HasRoom(rooms, code) => Refused("Room not found.")
              /\ (HasRoom(rooms, code) /\ RoomOf(rooms, code).phase # "lobby")
                   => Refused("Game already started.")
              /\ ( /\ HasRoom(rooms, code)
                   /\ RoomOf(rooms, code).phase = "lobby"
                   /\ Len(RoomOf(rooms, code).players) >= MAX_PLAYERS )
                   => Refused("Room full.") ]_vars

\* C4 witness: a join was refused because the game had started, in a room
\* that is full as well.
C4_Witness ==
    /\ last.op = "joinRoom"
    /\ sent = << ToSocket(last.id, "errorMsg", "Game already started.") >>
    /\ HasRoom(rooms, NormCode(last.arg))
    /\ Len(RoomOf(rooms, NormCode(last.arg)).players) = MAX_PLAYERS

\* C5: no room ever holds more than 12 players.
C5_AtMostTwelve == \A i \in RoomIds : Len(rooms[i].players) <= MAX_PLAYERS

\* C5 witness: the thirteenth join to a room of 12 has been refused with
\* RoomFull, and the 12 are still there.
C5_Witness ==
    /\ last.op = "joinRoom"
    /\ sent = << ToSocket(last.id, "errorMsg", "Room full.") >>
    /\ Len(RoomOf(rooms, NormCode(last.arg)).players) = MAX_PLAYERS
    /\ ~HasPlayer(RoomOf(rooms, NormCode(last.arg)).players, last.id)

\* C6: a joinRoom that goes through adds exactly one record to the room, its
\* host flag false, and leaves the records that were there as they were,
\* whoever joins.
C6_JoinAddsOneRecord ==
    [][ (Handled("joinRoom") /\ Len(sent') = 2) =>
          LET code == NormCode(last'.arg)
              old  == RoomOf(rooms, code).players
              new  == RoomOf(rooms', code).players
          IN  /\ Len(new) = Len(old) + 1
              /\ SubSeq(new, 1, Len(old)) = old
              /\ new[Len(new)].id = last'.id
              /\ ~new[Len(new)].isHost ]_vars

\* C7: every room has at most one player whose host flag is set.
C7_AtMostOneHost == \A i \in RoomIds : Cardinality(Hosts(rooms[i])) <= 1

\* C7 witness: the host of a room of three has disconnected and exactly the
\* first of the two left behind holds the host flag.
C7_Witness ==
    /\ last.op = "disconnect" /\ last.host
    /\ \E i \in RoomIds : /\ Len(rooms[i].players) = 2
                          /\ Hosts(rooms[i]) = {1}
                          /\ sent = << ToRoom(rooms[i].code, "lobby", snapshotRoom(rooms[i])) >>

\* C8: every live socket has a player record in at most one room.
C8_OneRoomPerSocket ==
    \A c \in Live : Cardinality({ i \in RoomIds : HasPlayer(rooms[i].players, c) }) <= 1

\* C9: once a socket has left or disconnected, no room holds a player record
\* under its id.
C9_GoneAfterDeparture ==
    last.op \in {"leaveRoom", "disconnect"}
      => \A i \in RoomIds : ~HasPlayer(rooms[i].players, last.id)

\* C10: a room leaves the table only in a tick, only when it holds no player
\* and now - createdAt exceeds the TTL, and then either the TTL has passed
\* since it was created or a departure has rewritten createdAt (lastTick keeps
\* the time of creation).
C10_SweepOnlyEmptyStale ==
    [][ \A i \in RoomIds :
          ~HasRoom(rooms', rooms[i].code)
            => ( /\ Handled("tick")
                 /\ Len(rooms[i].players) = 0
                 /\ now' - rooms[i].createdAt > ROOM_TTL_MS
                 /\ ( now' - rooms[i].lastTick > ROOM_TTL_MS
                      \/ rooms[i].createdAt # rooms[i].lastTick ) ) ]_vars

\* C10 witness: a tick has swept a room while another room, which has a player
\* and was created more than the TTL ago, stays in the table.
C10_Witness ==
    /\ last.op = "tick" /\ last.swept # {}
    /\ \E i \in RoomIds : /\ Len(rooms[i].players) > 0
                          /\ now - rooms[i].lastTick > ROOM_TTL_MS

\* The room of code is in the table and holds no player.
EmptyRoom(code) == HasRoom(rooms, code) /\ Len(RoomOf(rooms, code).players) = 0

\* C11: a leaveRoom or disconnect that removes the last player of a room
\* leaves the room in the table with now - createdAt beyond the TTL; a tick
\* deletes every room that holds no player when it starts; and so a room that
\* is empty is later out of the table, unless someone joined it before.
C11_EmptiedRoomSwept ==
    /\ [][ \A i \in RoomIds :
             /\ (last'.op \in {"leaveRoom", "disconnect"} /\ Len(rooms[i].players) > 0)
                  => /\ HasRoom(rooms', rooms[i].code)
                     /\ Len(RoomOf(rooms', rooms[i].code).players) = 0
                          => now' - RoomOf(rooms', rooms[i].code).createdAt > ROOM_TTL_MS
             /\ (Handled("tick") /\ Len(rooms[i].players) = 0)
                  => ~HasRoom(rooms', rooms[i].code) ]_vars
    /\ \A code \in Codes : EmptyRoom(code) ~> ~EmptyRoom(code)

\* C11 witness: a tick has swept the only room there was, and no socket has
\* disconnected: a leaveRoom had emptied it.
C11_Witness ==
    /\ last.op = "tick" /\ last.swept # {}
    /\ rooms = <<>> /\ closed = {}
    /\ \E c \in Live : joinedCode[c] = Null

StateFields == {"phase", "seed", "players", "t"}
StateEntryFields == {"id", "name", "color", "x", "y", "angle", "speed", "fuel",
                     "maxFuel", "distance"}

\* C15: every state message carries phase, seed, players and t, and each of
\* its player entries carries id, name, color, x, y, angle, speed, fuel,
\* maxFuel and distance and nothing else, whether a tick or a disconnect
\* emitted it.
C15_StateMessageShape ==
    \A k \in 1..Len(sent) :
        sent[k].ev = "state"
          => /\ DOMAIN sent[k].data = StateFields
             /\ \A j \in 1..Len(sent[k].data.players) :
                    DOMAIN sent[k].data.players[j] = StateEntryFields

\* The state messages among ms that went to the room of code.
StateMessagesTo(ms, code) ==
    { k \in 1..Len(ms) : ms[k].to = "room" /\ ms[k].code = code /\ ms[k].ev = "state" }

\* C17: a tick applies one simulation step to every player of every running
\* room and emits one state message per running room, holding the stepped
\* players, also for a room the sweep of the same tick deletes; it emits
\* nothing else and leaves the players of every lobby room as they were.
C17_TickStepsRunningRooms ==
    [][ Handled("tick") =>
          /\ \A i \in RoomIds :
                LET room    == rooms[i]
                    stepped == [ j \in 1..Len(room.players) |->
                                   StepPlayer(room.seed, room.players[j], now') ]
                IN  IF room.phase = "running"
                    THEN /\ HasRoom(rooms', room.code)
                              => RoomOf(rooms', room.code).players = stepped
                         /\ \E k \in 1..Len(sent') :
                              /\ StateMessagesTo(sent', room.code) = {k}
                              /\ sent'[k].data.players
                                   = [ j \in 1..Len(stepped) |-> StateEntry(stepped[j]) ]
                    ELSE /\ StateMessagesTo(sent', room.code) = {}
                         /\ HasRoom(rooms', room.code)
                              => RoomOf(rooms', room.code).players = room.players
          /\ Len(sent') = Cardinality({ i \in RoomIds : rooms[i].phase = "running" }) ]_vars

\* C17 witness: a tick has run over a running room and a lobby room, each
\* with a player: one state message went out, to the running room, and the
\* lobby player with throttle stored has not moved.
C17_Witness ==
    /\ last.op = "tick" /\ Len(sent) = 1
    /\ \E i, k \in RoomIds :
          /\ rooms[i].phase = "running" /\ Len(rooms[i].players) > 0
          /\ StateMessagesTo(sent, rooms[i].code) = {1}
          /\ rooms[k].phase = "lobby" /\ Len(rooms[k].players) > 0

\* The socket's joinedCode names no room, or no room holds a record of it.
NotJoined(c) ==
    \/ ~HasRoom(rooms, joinedCode[c])
    \/ \A i \in RoomIds : ~HasPlayer(rooms[i].players, c)

\* C18: a setReady, startGame, input, leaveRoom or disconnect of a socket
\* that is in no room changes no room, no player record, and emits nothing.
C18_OutsiderIgnored ==
    [][ ( /\ last'.op \in {"setReady", "startGame", "input", "leaveRoom", "disconnect"}
          /\ last'.id \in Live
          /\ NotJoined(last'.id) )
        => (rooms' = rooms /\ sent' = <<>>) ]_vars

\* C18 witness: the only socket there ever was has disconnected while its
\* joinedCode named no room, and the room it had created and left is still
\* in the table, empty: the disconnect after the leaveRoom did nothing.
C18_Witness ==
    /\ last.op = "disconnect" /\ ~last.joined
    /\ sent = <<>>
    /\ Live = {} /\ closed = {last.id}
    /\ \E i \in RoomIds : Len(rooms[i].players) = 0

\* The players of the table, each as << room index, player index >>.
PlayerIds == { ij \in RoomIds \X (1..MAX_PLAYERS) : ij[2] <= Len(rooms[ij[1]].players) }
\* The steps that keep every player where it is in the table.
SamePlayers ==
    /\ Len(rooms') = Len(rooms)
    /\ \A i \in RoomIds :
          /\ Len(rooms'[i].players) = Len(rooms[i].players)
          /\ \A j \in 1..Len(rooms[i].players) : rooms'[i].players[j].id = rooms[i].players[j].id

\* C12: every stored throttle and brake is within 0..1, every stored steer
\* within -1..1, and every stored refuel is a boolean, whatever the input
\* messages carried.
C12_ControlsInRange ==
    \A ij \in PlayerIds :
        LET p == rooms[ij[1]].players[ij[2]]
        IN  /\ 0 <= p.throttle /\ p.throttle <= Milli
            /\ 0 <= p.brake /\ p.brake <= Milli
            /\ -Milli <= p.steer /\ p.steer <= Milli
            /\ p.refuel \in BOOLEAN

\* C12 witness: an input with throttle 7, brake -0.3, steer -2.5 and refuel
\* 'yes' has been taken and is stored as 1, 0, -1 and true.
C12_Witness ==
    /\ last.op = "input" /\ last.joined
    /\ last.arg.data.throttle = Num(7000) /\ last.arg.data.brake = Num(-300)
    /\ last.arg.data.steer = Num(-2500) /\ last.arg.data.refuel = "'yes'"
    /\ Controls(PlayerOf(RoomOf(rooms, joinedCode[last.id]).players, last.id))
         = [throttle |-> Milli, brake |-> 0, steer |-> -Milli, refuel |-> TRUE]

\* C13: every player's fuel is within 0..maxFuel and every player's speed
\* within -10..45 m/s.
C13_FuelAndSpeedBounded ==
    \A ij \in PlayerIds :
        LET p == rooms[ij[1]].players[ij[2]]
        IN  /\ 0 <= p.fuel /\ p.fuel <= p.maxFuel
            /\ -10 * Milli <= p.speed /\ p.speed <= 45 * Milli

\* C13 witness: a tick has burnt the last fuel of a player still moving under
\* throttle: the fuel is 0, not below.
C13_Witness ==
    /\ last.op = "tick"
    /\ \E ij \in PlayerIds :
          LET p == rooms[ij[1]].players[ij[2]]
          IN  p.fuel = 0 /\ p.throttle > 0 /\ p.speed > phys.burnSpeed

\* C14: no step makes a player's distance smaller; a tick adds the change of
\* y to it when y has grown and leaves it as it is otherwise.
C14_DistanceMonotonic ==
    [][ SamePlayers =>
          \A ij \in PlayerIds :
              LET p == rooms[ij[1]].players[ij[2]]
                  q == rooms'[ij[1]].players[ij[2]]
              IN  /\ q.distance >= p.distance
                  /\ Handled("tick") /\ rooms[ij[1]].phase = "running"
                       => q.distance = IF q.y - p.y > 0 THEN p.distance + (q.y - p.y)
                                       ELSE p.distance ]_vars

\* C14 witness: a tick has moved a player backwards behind the start line,
\* and its distance is still 0.
C14_Witness ==
    /\ last.op = "tick"
    /\ \E ij \in PlayerIds :
          LET p == rooms[ij[1]].players[ij[2]]
          IN  p.speed < 0 /\ p.y < 0 /\ p.distance = 0

\* C16: a tick over a player whose last input is more than 10 s old stores
\* throttle, brake and steer 0 and refuel false, keeps the angle and the
\* fuel, does not raise the speed's magnitude and moves the player by no
\* more than that speed allows (not at all at speed 0); a tick over a player
\* heard of within 10 s keeps the stored controls and turns by them.
C16_IdleControlsNeutral ==
    [][ (Handled("tick") /\ SamePlayers) =>
          \A ij \in PlayerIds :
              LET p == rooms[ij[1]].players[ij[2]]
                  q == rooms'[ij[1]].players[ij[2]]
              IN  rooms[ij[1]].phase = "running" =>
                    IF now' - p.lastHeard > IDLE_MS
                    THEN /\ Controls(q) = [throttle |-> 0, brake |-> 0, steer |-> 0,
                                           refuel |-> FALSE]
                         /\ q.angle = p.angle
                         /\ q.fuel = p.fuel
                         /\ Abs(q.speed) <= Abs(p.speed)
                         /\ Abs(q.x - p.x) * TICK_HZ <= Abs(p.speed) + TICK_HZ
                         /\ Abs(q.y - p.y) * TICK_HZ <= Abs(p.speed) + TICK_HZ
                         /\ p.speed = 0 => (q.x = p.x /\ q.y = p.y)
                    ELSE /\ Controls(q) = Controls(p)
                         /\ p.steer > 0 => q.angle > p.angle
                         /\ p.steer < 0 => q.angle < p.angle ]_vars

\* C16 witness: a tick has just found a player silent for 10.05 s: the
\* controls are neutral, the car has turned before and still rolls.
C16_Witness ==
    /\ last.op = "tick"
    /\ \E ij \in PlayerIds :
          LET p == rooms[ij[1]].players[ij[2]]
          IN  /\ now - p.lastHeard = IDLE_MS + TICK_MS
              /\ Controls(p) = [throttle |-> 0, brake |-> 0, steer |-> 0, refuel |-> FALSE]
              /\ p.angle # 0 /\ p.speed > 0

\* What Math.max(lo, Math.min(hi, +raw || 0)) is to give.
Limited(lo, hi, raw) ==
    IF raw.nan THEN 0 ELSE IF raw.v < lo THEN lo ELSE IF raw.v > hi THEN hi ELSE raw.v

\* C19: an input of a member stores the message's own throttle, brake and
\* steer, limited, 0 for a field it does not carry, its refuel as a boolean
\* and the time, and changes nothing else in the table; a tick steps every
\* running player with the controls it finds stored, those of the last input.
C19_InputReplacesControls ==
    [][ /\ ( Handled("input") /\ last'.joined ) =>
              LET c    == last'.id
                  data == last'.arg.data
                  i    == RoomIdx(rooms, joinedCode[c])
                  j    == PlayerIdx(rooms[i].players, c)
              IN  rooms' = [ rooms EXCEPT ![i].players[j] =
                               [ @ EXCEPT !.throttle = Limited(0, Milli, data.throttle),
                                          !.brake = Limited(0, Milli, data.brake),
                                          !.steer = Limited(-Milli, Milli, data.steer),
                                          !.refuel = (data.refuel \in {"true", "1", "'yes'"}),
                                          !.lastHeard = now ] ]
        /\ ( Handled("tick") /\ SamePlayers ) =>
              \A ij \in PlayerIds :
                  rooms[ij[1]].phase = "running"
                    => rooms'[ij[1]].players[ij[2]]
                         = StepPlayer(rooms[ij[1]].seed, rooms[ij[1]].players[ij[2]], now') ]_vars

\* C19 witness: two inputs have come in since the last tick; the second has
\* no throttle field and found throttle 1 stored: throttle 0 is stored now.
C19_Witness ==
    /\ last.op = "input" /\ last.joined
    /\ msgs = 2 /\ ticks = 0 /\ now > 0
    /\ last.arg.data.throttle = NaN
    /\ last.arg.found[1].throttle = Milli
    /\ PlayerOf(RoomOf(rooms, joinedCode[last.id]).players, last.id).throttle = 0
    /\ PlayerOf(RoomOf(rooms, joinedCode[last.id]).players, last.id).lastHeard = now

\* C20: a tick raises a player's fuel only when, in that tick, the refuel
\* flag is set, the fuel was below maxFuel, and the POI of the segment of the
\* player's new y is a gas station, store or town within radius + 3 m; the
\* fuel rises by no more than 1.5 and not above maxFuel.
C20_RefuelOnlyAtStations ==
    [][ (Handled("tick") /\ SamePlayers) =>
          \A ij \in PlayerIds :
              LET p   == rooms[ij[1]].players[ij[2]]
                  q   == rooms'[ij[1]].players[ij[2]]
                  poi == poiForY(rooms[ij[1]].seed, q.y)
              IN  q.fuel > p.fuel =>
                    /\ q.refuel
                    /\ p.fuel < p.maxFuel
                    /\ poi.type \in {"gas", "store", "town"}
                    /\ poi.type \notin {"hotel", "none"}
                    /\ near(q.x, q.y, poi)
                    /\ q.fuel <= q.maxFuel
                    /\ q.fuel - p.fuel <= phys.refuelRate \div TICK_HZ ]_vars

\* C20 witness: a tick has left a player with a full tank beside a gas
\* station although it burnt fuel under throttle in that tick: the refuel
\* was cut at maxFuel.
C20_Witness ==
    /\ last.op = "tick"
    /\ \E ij \in PlayerIds :
          LET p   == rooms[ij[1]].players[ij[2]]
              poi == poiForY(rooms[ij[1]].seed, p.y)
          IN  /\ p.fuel = p.maxFuel /\ p.refuel
              /\ p.throttle > 0 /\ p.speed > phys.burnSpeed
              /\ poi.type = "gas" /\ near(p.x, p.y, poi)
=============================================================================
